---- MODULE Spec2Model ----
(***************************************************************************)
(* A model of the escrow program's processor (src/src/processor.rs): the   *)
(* InitEscrow and Exchange handlers, the token-ledger calls they issue,    *)
(* and the host's all-or-nothing commit of each invocation.                *)
(*                                                                         *)
(* One invocation is one step: the processor runs the instruction to       *)
(* completion and the host commits what it staged, or discards it when the *)
(* handler returned an error.  The instruction and its result stay visible *)
(* until the host retires them, and only then is the next one admitted.    *)
(***************************************************************************)
EXTENDS Integers, Sequences, FiniteSets, TLC

VARIABLES ledger, before, tx, result, history

vars == <<ledger, before, tx, result, history>>

(***************************************************************************)
(* Bounds of the model.                                                    *)
(***************************************************************************)
\* Token quantities deposited, held by the taker, and named in instructions.
MaxAmount == 2
\* Lamport and token quantities are u64 in the program; the model keeps the
\* wrap-around point but scales the width down to this many bits.
U64Bits == 4
\* Upper end of the count of successful handler runs the history keeps.
MaxRuns == 2

U64_MAX == (2 ^ U64Bits) - 1

(***************************************************************************)
(* Identities.                                                             *)
(***************************************************************************)
SPL_TOKEN_ID == "spl_token"
SYSTEM_PROGRAM_ID == "system_program"
ESCROW_PROGRAM_ID == "escrow_program"
RENT_SYSVAR_ID == "sysvar_rent"
NoKey == "none"

Wallets == {"alice", "bob"}
TokenAccts == {"tempA", "aliceA", "aliceB", "bobA", "bobB"}
EscrowAcct == "escrow"
Accts == Wallets \cup TokenAccts \cup {EscrowAcct}

\* Pubkey::find_program_address(&[b"escrow"], program_id): a pure function of
\* the seed and the program identity.
find_program_address(seed, program_id) ==
    IF seed = "escrow" /\ program_id = ESCROW_PROGRAM_ID
    THEN [address |-> "pda_escrow", bump |-> 255]
    ELSE [address |-> "pda_other", bump |-> 254]

\* The address the runtime derives for the signer seeds of invoke_signed.
create_program_address(seed, bump, program_id) ==
    IF seed = "escrow" /\ bump = 255 /\ program_id = ESCROW_PROGRAM_ID
    THEN "pda_escrow"
    ELSE "pda_other"

\* The program that owns an account (AccountInfo::owner).
AccountOwner(key) ==
    IF key \in TokenAccts THEN SPL_TOKEN_ID
    ELSE IF key = EscrowAcct THEN ESCROW_PROGRAM_ID
    ELSE SYSTEM_PROGRAM_ID

(***************************************************************************)
(* The escrow record (Escrow in state.rs, 105 packed bytes).               *)
(***************************************************************************)
ESCROW_LEN == 105

EscrowZeroed ==
    [is_initialized |-> FALSE,
     initializer_pubkey |-> NoKey,
     temp_token_account_pubkey |-> NoKey,
     initializer_token_to_receive_account_pubkey |-> NoKey,
     expected_amount |-> 0]

\* u64::to_le_bytes / u64::from_le_bytes over n bytes.
RECURSIVE to_le_bytes(_, _)
to_le_bytes(v, n) ==
    IF n = 0 THEN <<>> ELSE <<v % 256>> \o to_le_bytes(v \div 256, n - 1)

RECURSIVE from_le_bytes(_)
from_le_bytes(b) ==
    IF b = <<>> THEN 0 ELSE Head(b) + 256 * from_le_bytes(Tail(b))

\* Escrow::pack: the flag as one byte, the three keys, the amount as eight
\* little-endian bytes.
Escrow_pack_into_slice(info) ==
    [is_initialized |-> IF info.is_initialized THEN 1 ELSE 0,
     initializer_pubkey |-> info.initializer_pubkey,
     temp_token_account_pubkey |-> info.temp_token_account_pubkey,
     initializer_token_to_receive_account_pubkey |->
         info.initializer_token_to_receive_account_pubkey,
     expected_amount |-> to_le_bytes(info.expected_amount, 8)]

\* Escrow::unpack_from_slice: the inverse reading of the packed bytes.
Escrow_unpack_from_slice(bytes) ==
    [is_initialized |-> bytes.is_initialized = 1,
     initializer_pubkey |-> bytes.initializer_pubkey,
     temp_token_account_pubkey |-> bytes.temp_token_account_pubkey,
     initializer_token_to_receive_account_pubkey |->
         bytes.initializer_token_to_receive_account_pubkey,
     expected_amount |-> from_le_bytes(bytes.expected_amount)]

\* The data of the account behind a handle, seen as an escrow record.
EscrowData(led, key) ==
    IF key = EscrowAcct THEN led.escrow
    ELSE [data_len |-> 0, info |-> EscrowZeroed]

\* Escrow::unpack_unchecked: only the length of the data is checked.
Escrow_unpack_unchecked_err(data) ==
    IF data.data_len # ESCROW_LEN THEN "InvalidAccountData" ELSE "Ok"

\* Escrow::unpack: the length, then the is_initialized flag.
Escrow_unpack_err(data) ==
    IF data.data_len # ESCROW_LEN THEN "InvalidAccountData"
    ELSE IF ~data.info.is_initialized THEN "UninitializedAccount"
    ELSE "Ok"

\* Rent::minimum_balance, scaled: one unit for the account, one for its data.
RentMinimumBalance(data_len) ==
    1 + ((data_len + ESCROW_LEN - 1) \div ESCROW_LEN)

\* Rent::is_exempt(lamports, data_len)
rent_is_exempt(lamports, data_len) ==
    lamports >= RentMinimumBalance(data_len)

(***************************************************************************)
(* The token ledger (spl_token), as the handlers call it.  Each call       *)
(* returns [err, led]: the error code and the ledger it staged.            *)
(***************************************************************************)
\* TokenAccount::unpack of the data behind a handle.
TokenAccount_unpack_err(led, key) ==
    IF key \notin TokenAccts THEN "InvalidAccountData"
    ELSE IF led.token[key].state # "Initialized" THEN "UninitializedAccount"
    ELSE "Ok"

\* The token ledger's check that the named authority owns the account and signed.
validate_owner(expected_owner, authority, is_signer) ==
    IF expected_owner # authority THEN "OwnerMismatch"
    ELSE IF ~is_signer THEN "MissingRequiredSignature"
    ELSE "Ok"

Failed(err, led) == [err |-> err, led |-> led]

\* transfer debiting the source without crediting the destination.
token_transfer_no_credit(led, src, dst, authority, is_signer, amount) ==
    IF TokenAccount_unpack_err(led, src) # "Ok"
    THEN Failed(TokenAccount_unpack_err(led, src), led)
    ELSE IF TokenAccount_unpack_err(led, dst) # "Ok"
    THEN Failed(TokenAccount_unpack_err(led, dst), led)
    ELSE IF led.token[src].amount < amount THEN Failed("InsufficientFunds", led)
    ELSE IF led.token[src].mint # led.token[dst].mint THEN Failed("MintMismatch", led)
    ELSE IF validate_owner(led.token[src].owner, authority, is_signer) # "Ok"
    THEN Failed(validate_owner(led.token[src].owner, authority, is_signer), led)
    ELSE IF src = dst \/ amount = 0 THEN Failed("Ok", led)
    ELSE IF led.token[dst].amount + amount > U64_MAX THEN Failed("Overflow", led)
    ELSE [err |-> "Ok",
          led |-> [led EXCEPT !.token[src].amount = @ - amount]]

\* transfer(src, dst, authority, amount)
token_transfer(led, src, dst, authority, is_signer, amount) ==
    IF TokenAccount_unpack_err(led, src) # "Ok"
    THEN Failed(TokenAccount_unpack_err(led, src), led)
    ELSE IF TokenAccount_unpack_err(led, dst) # "Ok"
    THEN Failed(TokenAccount_unpack_err(led, dst), led)
    ELSE IF led.token[src].amount < amount THEN Failed("InsufficientFunds", led)
    ELSE IF led.token[src].mint # led.token[dst].mint THEN Failed("MintMismatch", led)
    ELSE IF validate_owner(led.token[src].owner, authority, is_signer) # "Ok"
    THEN Failed(validate_owner(led.token[src].owner, authority, is_signer), led)
    ELSE IF src = dst \/ amount = 0 THEN Failed("Ok", led)
    ELSE IF led.token[dst].amount + amount > U64_MAX THEN Failed("Overflow", led)
    ELSE [err |-> "Ok",
          led |-> [led EXCEPT !.token[src].amount = @ - amount,
                              !.token[dst].amount = @ + amount]]

\* set_authority(account, new_authority, AccountOwner, current_authority)
token_set_authority(led, account, new_authority, authority, is_signer) ==
    IF TokenAccount_unpack_err(led, account) # "Ok"
    THEN Failed(TokenAccount_unpack_err(led, account), led)
    ELSE IF validate_owner(led.token[account].owner, authority, is_signer) # "Ok"
    THEN Failed(validate_owner(led.token[account].owner, authority, is_signer), led)
    ELSE [err |-> "Ok", led |-> [led EXCEPT !.token[account].owner = new_authority]]

\* close_account(account, refund_destination, authority)
token_close_account(led, account, destination, authority, is_signer) ==
    IF account = destination THEN Failed("InvalidAccountData", led)
    ELSE IF TokenAccount_unpack_err(led, account) # "Ok"
    THEN Failed(TokenAccount_unpack_err(led, account), led)
    ELSE IF led.token[account].amount # 0 THEN Failed("NonNativeHasBalance", led)
    ELSE IF validate_owner(led.token[account].owner, authority, is_signer) # "Ok"
    THEN Failed(validate_owner(led.token[account].owner, authority, is_signer), led)
    ELSE IF destination \notin Accts THEN Failed("InvalidAccountData", led)
    ELSE IF led.lamports[destination] + led.lamports[account] > U64_MAX
    THEN Failed("Overflow", led)
    ELSE [err |-> "Ok",
          led |-> [led EXCEPT !.lamports[destination] = @ + led.lamports[account],
                              !.lamports[account] = 0,
                              !.token[account] =
                                  [mint |-> NoKey, owner |-> NoKey,
                                   amount |-> 0, state |-> "Uninitialized"]]]

(***************************************************************************)
(* A handler run: the error it returns (Ok so far), the ledger staged so   *)
(* far, the number of token-ledger calls issued so far, and whether a      *)
(* check or a call of the run has failed.                                  *)
(***************************************************************************)
Start(led) == [err |-> "Ok", led |-> led, issued |-> 0, failed |-> FALSE]

\* return Err(err)
Abort(c, err) == [c EXCEPT !.err = err, !.failed = TRUE]

\* invoke(...) without the `?`: the error of the call is dropped and the
\* handler goes on.
Invoked_drops_error(c, r) ==
    [err |-> c.err, led |-> r.led, issued |-> c.issued + 1,
     failed |-> c.failed \/ r.err # "Ok"]

\* invoke(...)? / invoke_signed(...)? of a token-ledger call: the call is
\* issued, and its error, if any, is returned by `?`.
Invoked(c, r) ==
    [err |-> r.err, led |-> r.led, issued |-> c.issued + 1,
     failed |-> c.failed \/ r.err # "Ok"]


\* next_account_info on a list of n handles: the i-th handle is there or the
\* handler returns NotEnoughAccountKeys.
HasAccount(a, i) == i <= a.n

Lamports(led, key) == IF key \in Accts THEN led.lamports[key] ELSE 0

(***************************************************************************)
(* Processor::processor_init_escrow                                        *)
(***************************************************************************)
\* InitChecks without the rent-exemption check.
InitChecks_no_rent_check(a, c) ==
    IF c.err # "Ok" THEN c
    ELSE IF ~HasAccount(a, 1) THEN Abort(c, "NotEnoughAccountKeys")
    ELSE IF ~a.is_signer THEN Abort(c, "MissingRequiredSignature")
    ELSE IF ~HasAccount(a, 2) THEN Abort(c, "NotEnoughAccountKeys")
    ELSE IF TokenAccount_unpack_err(c.led, a.temp_token_account) # "Ok"
    THEN Abort(c, TokenAccount_unpack_err(c.led, a.temp_token_account))
    ELSE IF ~HasAccount(a, 3) THEN Abort(c, "NotEnoughAccountKeys")
    ELSE IF AccountOwner(a.token_to_receive_account) # SPL_TOKEN_ID
    THEN Abort(c, "IncorrectProgramId")
    ELSE IF ~HasAccount(a, 5) THEN Abort(c, "NotEnoughAccountKeys")
    ELSE IF a.rent # RENT_SYSVAR_ID THEN Abort(c, "InvalidArgument")
    ELSE c

\* Lines 42-69: the handles and the checks made before the record is read.
InitChecks(a, c) ==
    IF c.err # "Ok" THEN c
    ELSE IF ~HasAccount(a, 1) THEN Abort(c, "NotEnoughAccountKeys")
    ELSE IF ~a.is_signer THEN Abort(c, "MissingRequiredSignature")
    ELSE IF ~HasAccount(a, 2) THEN Abort(c, "NotEnoughAccountKeys")
    ELSE IF TokenAccount_unpack_err(c.led, a.temp_token_account) # "Ok"
    THEN Abort(c, TokenAccount_unpack_err(c.led, a.temp_token_account))
    ELSE IF ~HasAccount(a, 3) THEN Abort(c, "NotEnoughAccountKeys")
    ELSE IF AccountOwner(a.token_to_receive_account) # SPL_TOKEN_ID
    THEN Abort(c, "IncorrectProgramId")
    ELSE IF ~HasAccount(a, 5) THEN Abort(c, "NotEnoughAccountKeys")
    ELSE IF a.rent # RENT_SYSVAR_ID THEN Abort(c, "InvalidArgument")
    ELSE IF ~rent_is_exempt(Lamports(c.led, a.escrow_account),
                            EscrowData(c.led, a.escrow_account).data_len)
    THEN Abort(c, "NotRentExempt")
    ELSE c

\* InitRecord without the is_initialized guard: the record is overwritten.
InitRecord_overwrites(a, c) ==
    IF c.err # "Ok" THEN c
    ELSE IF Escrow_unpack_unchecked_err(EscrowData(c.led, a.escrow_account)) # "Ok"
    THEN Abort(c, Escrow_unpack_unchecked_err(EscrowData(c.led, a.escrow_account)))
    ELSE [c EXCEPT !.led.escrow.info =
             [is_initialized |-> TRUE,
              initializer_pubkey |-> a.initializer,
              temp_token_account_pubkey |-> a.temp_token_account,
              initializer_token_to_receive_account_pubkey |-> a.token_to_receive_account,
              expected_amount |-> a.amount]]

\* InitRecord storing the receive account where the holding account belongs,
\* and the holding account where the receive account belongs.
InitRecord_swaps_accounts(a, c) ==
    IF c.err # "Ok" THEN c
    ELSE IF Escrow_unpack_unchecked_err(EscrowData(c.led, a.escrow_account)) # "Ok"
    THEN Abort(c, Escrow_unpack_unchecked_err(EscrowData(c.led, a.escrow_account)))
    ELSE IF EscrowData(c.led, a.escrow_account).info.is_initialized
    THEN Abort(c, "AccountAlreadyInitialized")
    ELSE [c EXCEPT !.led.escrow.info =
             Escrow_unpack_from_slice(Escrow_pack_into_slice(
                 [is_initialized |-> TRUE,
                  initializer_pubkey |-> a.initializer,
                  temp_token_account_pubkey |-> a.token_to_receive_account,
                  initializer_token_to_receive_account_pubkey |->
                      a.temp_token_account,
                  expected_amount |-> a.amount]))]

\* Lines 71-82: the record is unpacked unchecked, refused if already
\* initialized, and otherwise written with the instruction's fields.
InitRecord(a, c) ==
    IF c.err # "Ok" THEN c
    ELSE IF Escrow_unpack_unchecked_err(EscrowData(c.led, a.escrow_account)) # "Ok"
    THEN Abort(c, Escrow_unpack_unchecked_err(EscrowData(c.led, a.escrow_account)))
    ELSE IF EscrowData(c.led, a.escrow_account).info.is_initialized
    THEN Abort(c, "AccountAlreadyInitialized")
    ELSE [c EXCEPT !.led.escrow.info =
             Escrow_unpack_from_slice(Escrow_pack_into_slice(
                 [is_initialized |-> TRUE,
                  initializer_pubkey |-> a.initializer,
                  temp_token_account_pubkey |-> a.temp_token_account,
                  initializer_token_to_receive_account_pubkey |->
                      a.token_to_receive_account,
                  expected_amount |-> a.amount]))]

\* InitCustody naming the initializer, not the derived authority, as the new
\* authority of the holding account.
InitCustody_keeps_initializer(a, c) ==
    IF c.err # "Ok" THEN c
    ELSE IF ~HasAccount(a, 6) THEN Abort(c, "NotEnoughAccountKeys")
    ELSE IF a.token_program # SPL_TOKEN_ID THEN Abort(c, "IncorrectProgramId")
    ELSE Invoked(c, token_set_authority(
                        c.led, a.temp_token_account, a.initializer,
                        a.initializer, a.is_signer))

\* InitCustody deriving the new authority from another seed than the one
\* processor_exchange signs with.
InitCustody_other_seed(a, c) ==
    IF c.err # "Ok" THEN c
    ELSE IF ~HasAccount(a, 6) THEN Abort(c, "NotEnoughAccountKeys")
    ELSE IF a.token_program # SPL_TOKEN_ID THEN Abort(c, "IncorrectProgramId")
    ELSE Invoked(c, token_set_authority(
                        c.led, a.temp_token_account,
                        find_program_address("escrow_v2", ESCROW_PROGRAM_ID).address,
                        a.initializer, a.is_signer))

\* Lines 84-104: the holding account's authority is handed to the derived
\* program authority, signed by the initializer.
InitCustody(a, c) ==
    IF c.err # "Ok" THEN c
    ELSE IF ~HasAccount(a, 6) THEN Abort(c, "NotEnoughAccountKeys")
    ELSE IF a.token_program # SPL_TOKEN_ID THEN Abort(c, "IncorrectProgramId")
    ELSE Invoked(c, token_set_authority(
                        c.led, a.temp_token_account,
                        find_program_address("escrow", ESCROW_PROGRAM_ID).address,
                        a.initializer, a.is_signer))

\* processor_init_escrow handing over custody before it reads the record.
processor_init_escrow_custody_first(a, led) ==
    InitRecord(a, InitCustody(a, InitChecks(a, Start(led))))

processor_init_escrow(a, led) ==
    InitCustody(a, InitRecord(a, InitChecks(a, Start(led))))

(***************************************************************************)
(* Processor::processor_exchange                                           *)
(***************************************************************************)
\* ExchangeAmountCheck refusing only an amount above the balance.
ExchangeAmountCheck_only_above(a, c) ==
    IF c.err # "Ok" THEN c
    ELSE IF ~HasAccount(a, 1) THEN Abort(c, "NotEnoughAccountKeys")
    ELSE IF ~a.is_signer THEN Abort(c, "MissingRequiredSignature")
    ELSE IF ~HasAccount(a, 4) THEN Abort(c, "NotEnoughAccountKeys")
    ELSE IF TokenAccount_unpack_err(c.led, a.pda_token_account) # "Ok"
    THEN Abort(c, TokenAccount_unpack_err(c.led, a.pda_token_account))
    ELSE IF a.amount > c.led.token[a.pda_token_account].amount
    THEN Abort(c, "ExpectedAmountMismatch")
    ELSE c

\* Lines 114-131: the taker's signature, and the caller's amount against the
\* balance of the holding account supplied.
ExchangeAmountCheck(a, c) ==
    IF c.err # "Ok" THEN c
    ELSE IF ~HasAccount(a, 1) THEN Abort(c, "NotEnoughAccountKeys")
    ELSE IF ~a.is_signer THEN Abort(c, "MissingRequiredSignature")
    ELSE IF ~HasAccount(a, 4) THEN Abort(c, "NotEnoughAccountKeys")
    ELSE IF TokenAccount_unpack_err(c.led, a.pda_token_account) # "Ok"
    THEN Abort(c, TokenAccount_unpack_err(c.led, a.pda_token_account))
    ELSE IF a.amount # c.led.token[a.pda_token_account].amount
    THEN Abort(c, "ExpectedAmountMismatch")
    ELSE c

\* ExchangeRecordCheck without the comparison of the initializer's receive
\* account.
ExchangeRecordCheck_no_receive_check(a, c) ==
    IF c.err # "Ok" THEN c
    ELSE IF ~HasAccount(a, 7) THEN Abort(c, "NotEnoughAccountKeys")
    ELSE IF Escrow_unpack_err(EscrowData(c.led, a.escrow_account)) # "Ok"
    THEN Abort(c, Escrow_unpack_err(EscrowData(c.led, a.escrow_account)))
    ELSE IF a.pda_token_account
              # EscrowData(c.led, a.escrow_account).info.temp_token_account_pubkey
    THEN Abort(c, "InvalidAccountData")
    ELSE IF EscrowData(c.led, a.escrow_account).info.initializer_pubkey
              # a.initializer_account
    THEN Abort(c, "InvalidAccountData")
    ELSE c

\* Lines 133-152: the record is unpacked (it must be initialized) and the
\* three identities supplied are compared with the ones it stores.
ExchangeRecordCheck(a, c) ==
    IF c.err # "Ok" THEN c
    ELSE IF ~HasAccount(a, 7) THEN Abort(c, "NotEnoughAccountKeys")
    ELSE IF Escrow_unpack_err(EscrowData(c.led, a.escrow_account)) # "Ok"
    THEN Abort(c, Escrow_unpack_err(EscrowData(c.led, a.escrow_account)))
    ELSE IF a.pda_token_account
              # EscrowData(c.led, a.escrow_account).info.temp_token_account_pubkey
    THEN Abort(c, "InvalidAccountData")
    ELSE IF EscrowData(c.led, a.escrow_account).info.initializer_pubkey
              # a.initializer_account
    THEN Abort(c, "InvalidAccountData")
    ELSE IF EscrowData(c.led, a.escrow_account).info.initializer_token_to_receive_account_pubkey
              # a.initializer_token_to_receive_account
    THEN Abort(c, "InvalidAccountData")
    ELSE c

\* ExchangePayInitializer paying the recorded expected_amount instead of the
\* instruction's amount.
ExchangePayInitializer_pays_expected(a, c) ==
    IF c.err # "Ok" THEN c
    ELSE IF ~HasAccount(a, 8) THEN Abort(c, "NotEnoughAccountKeys")
    ELSE IF a.token_program # SPL_TOKEN_ID THEN Abort(c, "IncorrectProgramId")
    ELSE Invoked(c, token_transfer(
                        c.led, a.taker_token_to_send_account,
                        a.initializer_token_to_receive_account,
                        a.taker_account, a.is_signer,
                        EscrowData(c.led, a.escrow_account).info.expected_amount))

\* Lines 154-172: `amount` of the taker's asset goes to the initializer's
\* receive account, authorized by the taker.
ExchangePayInitializer(a, c) ==
    IF c.err # "Ok" THEN c
    ELSE IF ~HasAccount(a, 8) THEN Abort(c, "NotEnoughAccountKeys")
    ELSE IF a.token_program # SPL_TOKEN_ID THEN Abort(c, "IncorrectProgramId")
    ELSE Invoked(c, token_transfer(
                        c.led, a.taker_token_to_send_account,
                        a.initializer_token_to_receive_account,
                        a.taker_account, a.is_signer, a.amount))

\* The derived authority signs a call of invoke_signed when the address the
\* runtime derives from the signer seeds is the authority the call names; the
\* handle of that authority has to be among the accounts passed.
PdaCall(a, c, r) ==
    IF a.pda_account # find_program_address("escrow", ESCROW_PROGRAM_ID).address
    THEN Invoked(c, Failed("MissingAccount", c.led))
    ELSE Invoked(c, r)

PdaSigns ==
    create_program_address(
        "escrow", find_program_address("escrow", ESCROW_PROGRAM_ID).bump,
        ESCROW_PROGRAM_ID)
      = find_program_address("escrow", ESCROW_PROGRAM_ID).address

\* Lines 174-193: the balance the holding account had when the handler read it
\* (line 126, ledger `led0`) goes to the taker's receive account.
ExchangePayTaker(a, led0, c) ==
    IF c.err # "Ok" THEN c
    ELSE IF ~HasAccount(a, 9) THEN Abort(c, "NotEnoughAccountKeys")
    ELSE PdaCall(a, c, token_transfer(
                        c.led, a.pda_token_account,
                        a.taker_token_to_receive_account,
                        find_program_address("escrow", ESCROW_PROGRAM_ID).address,
                        PdaSigns, led0.token[a.pda_token_account].amount))

\* Lines 195-211: the holding account is closed, its lamports refunded to the
\* initializer account.
ExchangeCloseHolding(a, c) ==
    IF c.err # "Ok" THEN c
    ELSE PdaCall(a, c, token_close_account(
                        c.led, a.pda_token_account, a.initializer_account,
                        find_program_address("escrow", ESCROW_PROGRAM_ID).address,
                        PdaSigns))

\* ExchangeCloseRecord filling the record's data with zeros instead of
\* emptying it.
ExchangeCloseRecord_zero_fills(a, c) ==
    IF c.err # "Ok" THEN c
    ELSE IF Lamports(c.led, a.initializer_account)
              + Lamports(c.led, a.escrow_account) > U64_MAX
    THEN Abort(c, "AmountOverflow")
    ELSE [c EXCEPT
             !.led.lamports[a.initializer_account] =
                 @ + c.led.lamports[a.escrow_account],
             !.led.lamports[a.escrow_account] = 0,
             !.led.escrow = [data_len |-> ESCROW_LEN, info |-> EscrowZeroed]]

\* ExchangeCloseRecord leaving the record account its lamports.
ExchangeCloseRecord_keeps_lamports(a, c) ==
    IF c.err # "Ok" THEN c
    ELSE IF Lamports(c.led, a.initializer_account)
              + Lamports(c.led, a.escrow_account) > U64_MAX
    THEN Abort(c, "AmountOverflow")
    ELSE [c EXCEPT
             !.led.lamports[a.initializer_account] =
                 @ + c.led.lamports[a.escrow_account],
             !.led.escrow = [data_len |-> 0, info |-> EscrowZeroed]]

\* ExchangeCloseRecord adding the lamports with a wrapping addition.
ExchangeCloseRecord_wrapping(a, c) ==
    IF c.err # "Ok" THEN c
    ELSE [c EXCEPT
             !.led.lamports[a.initializer_account] =
                 (@ + c.led.lamports[a.escrow_account]) % (U64_MAX + 1),
             !.led.lamports[a.escrow_account] = 0,
             !.led.escrow = [data_len |-> 0, info |-> EscrowZeroed]]

\* Lines 213-220: the record account's lamports go to the initializer account
\* (checked addition), and the record account is emptied.
ExchangeCloseRecord(a, c) ==
    IF c.err # "Ok" THEN c
    ELSE IF Lamports(c.led, a.initializer_account)
              + Lamports(c.led, a.escrow_account) > U64_MAX
    THEN Abort(c, "AmountOverflow")
    ELSE [c EXCEPT
             !.led.lamports[a.initializer_account] =
                 @ + c.led.lamports[a.escrow_account],
             !.led.lamports[a.escrow_account] = 0,
             !.led.escrow = [data_len |-> 0, info |-> EscrowZeroed]]

\* processor_exchange paying the initializer before it reads the record.
processor_exchange_pays_first(a, led) ==
    ExchangeCloseRecord(a,
      ExchangeCloseHolding(a,
        ExchangePayTaker(a, led,
          ExchangeRecordCheck(a,
            ExchangePayInitializer(a,
              ExchangeAmountCheck(a, Start(led)))))))

processor_exchange(a, led) ==
    ExchangeCloseRecord(a,
      ExchangeCloseHolding(a,
        ExchangePayTaker(a, led,
          ExchangePayInitializer(a,
            ExchangeRecordCheck(a,
              ExchangeAmountCheck(a, Start(led)))))))


(***************************************************************************)
(* The host: one instruction at a time, committed whole or not at all.     *)
(***************************************************************************)
\* A host that keeps what a failed handler run had staged.
Commit_keeps_partial(led, c) == c.led

\* What the host keeps of a handler run: the staged ledger when the handler
\* returned Ok(()), the ledger as it was before when it returned an error.
Commit(led, c) == IF c.err = "Ok" THEN c.led ELSE led

NoTx == [op |-> "none"]
NoResult == [err |-> "none", issued |-> 0, failed |-> FALSE]

TOKEN_ACCOUNT_LEN == 165

\* The ledger before any instruction: alice holds X of asset A in the account
\* she will hand over, a second (empty) account of asset A and one unit of
\* asset B; bob holds asset B, and the record account is allocated
\* (zeroed, ESCROW_LEN bytes) with or without enough lamports.
InitialLedger(x, alice_lamports, escrow_lamports) ==
    [lamports |->
        [k \in Accts |->
            IF k = "alice" THEN alice_lamports
            ELSE IF k = EscrowAcct THEN escrow_lamports
            ELSE IF k \in TokenAccts THEN RentMinimumBalance(TOKEN_ACCOUNT_LEN)
            ELSE 1],
     token |->
        [k \in TokenAccts |->
            [mint |-> IF k \in {"tempA", "aliceA", "bobA"} THEN "A" ELSE "B",
             owner |-> IF k \in {"tempA", "aliceA", "aliceB"} THEN "alice" ELSE "bob",
             amount |-> IF k = "tempA" THEN x
                        ELSE IF k = "bobB" THEN MaxAmount
                        ELSE IF k = "aliceB" THEN 1 ELSE 0,
             state |-> "Initialized"]],
     escrow |-> [data_len |-> ESCROW_LEN, info |-> EscrowZeroed]]

InitialLedgers ==
    { InitialLedger(x, al, el) :
        x \in 0..MaxAmount,
        al \in {1, U64_MAX - RentMinimumBalance(TOKEN_ACCOUNT_LEN) - 1},
        el \in {RentMinimumBalance(ESCROW_LEN) - 1, RentMinimumBalance(ESCROW_LEN)} }

Init ==
    /\ ledger \in InitialLedgers
    /\ before = ledger
    /\ tx = NoTx
    /\ result = NoResult
    /\ history = [init_ok |-> 0, exchange_ok |-> 0, init_args |-> NoTx]

\* The i-th handle of a list of n handles is drawn from S, or is absent.
Handle(i, n, S) == IF i <= n THEN S ELSE {NoKey}

\* How an InitEscrow instruction can be malformed besides its handles naming
\* the wrong accounts: the list is short, the initializer did not sign, the
\* rent handle is not the rent sysvar, the token program handle is not the
\* token program.
InitEnvs ==
    { <<6, TRUE, RENT_SYSVAR_ID, SPL_TOKEN_ID>>,
      <<6, FALSE, RENT_SYSVAR_ID, SPL_TOKEN_ID>>,
      <<6, TRUE, "alice", SPL_TOKEN_ID>>,
      <<6, TRUE, RENT_SYSVAR_ID, "alice">> }
    \cup { <<n, n > 0, IF n >= 5 THEN RENT_SYSVAR_ID ELSE NoKey, NoKey>> : n \in 0..5 }

InitArgs ==
    UNION { { [op |-> "InitEscrow",
               n |-> e[1],
               is_signer |-> e[2],
               initializer |-> i,
               temp_token_account |-> t,
               token_to_receive_account |-> r,
               escrow_account |-> s,
               rent |-> e[3],
               token_program |-> e[4],
               amount |-> m] :
                 i \in Handle(1, e[1], Wallets),
                 t \in Handle(2, e[1], {"tempA", "bobA", "alice"}),
                 r \in Handle(3, e[1], {"aliceB", "alice"}),
                 s \in Handle(4, e[1], {EscrowAcct}),
                 m \in 0..MaxAmount } : e \in InitEnvs }

ExchangeEnvs ==
    { <<9, TRUE, SPL_TOKEN_ID, find_program_address("escrow", ESCROW_PROGRAM_ID).address>>,
      <<9, FALSE, SPL_TOKEN_ID, find_program_address("escrow", ESCROW_PROGRAM_ID).address>>,
      <<9, TRUE, "alice", find_program_address("escrow", ESCROW_PROGRAM_ID).address>>,
      <<9, TRUE, SPL_TOKEN_ID, "alice">> }
    \cup { <<n, n > 0, IF n >= 8 THEN SPL_TOKEN_ID ELSE NoKey, NoKey>> : n \in {0, 4, 8} }

ExchangeArgs ==
    UNION { { [op |-> "Exchange",
               n |-> e[1],
               is_signer |-> e[2],
               taker_account |-> t,
               taker_token_to_send_account |-> ts,
               taker_token_to_receive_account |-> tr,
               pda_token_account |-> h,
               initializer_account |-> i,
               initializer_token_to_receive_account |-> ir,
               escrow_account |-> s,
               token_program |-> e[3],
               pda_account |-> e[4],
               amount |-> m] :
                 t \in Handle(1, e[1], Wallets),
                 ts \in Handle(2, e[1], {"aliceB", "bobB"}),
                 tr \in Handle(3, e[1], {"bobA", "tempA", "aliceA"}),
                 h \in Handle(4, e[1], {"tempA", "bobA"}),
                 i \in Handle(5, e[1], Wallets),
                 ir \in Handle(6, e[1], {"aliceB", "bobB"}),
                 s \in Handle(7, e[1], {EscrowAcct}),
                 m \in 0..MaxAmount } : e \in ExchangeEnvs }

Count(n, ok) == IF ok THEN n + 1 ELSE n

\* Processor::processor, InitEscrow arm.
InitEscrow(a) ==
    /\ tx = NoTx
    /\ history.init_ok < MaxRuns
    /\ history.exchange_ok < MaxRuns
    /\ LET c == processor_init_escrow(a, ledger)
       IN /\ ledger' = Commit(ledger, c)
          /\ result' = [err |-> c.err, issued |-> c.issued, failed |-> c.failed]
          /\ history' = [history EXCEPT
                             !.init_ok = Count(@, c.err = "Ok"),
                             !.init_args = IF c.err = "Ok" THEN a ELSE @]
    /\ before' = ledger
    /\ tx' = a

\* Processor::processor, Exchange arm.
Exchange(a) ==
    /\ tx = NoTx
    /\ history.init_ok < MaxRuns
    /\ history.exchange_ok < MaxRuns
    /\ LET c == processor_exchange(a, ledger)
       IN /\ ledger' = Commit(ledger, c)
          /\ result' = [err |-> c.err, issued |-> c.issued, failed |-> c.failed]
          /\ history' = [history EXCEPT !.exchange_ok = Count(@, c.err = "Ok")]
    /\ before' = ledger
    /\ tx' = a

\* The host hands the result back and admits the next instruction.
Retire ==
    /\ tx # NoTx
    /\ tx' = NoTx
    /\ result' = NoResult
    /\ before' = ledger
    /\ UNCHANGED <<ledger, history>>

\* Between instructions anyone may send lamports to an address: a wallet
\* credits the record account, once it has been drained, with the rent
\* reserve of a full record.
FundRecord(w) ==
    /\ tx = NoTx
    /\ ledger.lamports[EscrowAcct] = 0
    /\ ledger.lamports[w] >= RentMinimumBalance(ESCROW_LEN)
    /\ ledger' = [ledger EXCEPT
                      !.lamports[w] = @ - RentMinimumBalance(ESCROW_LEN),
                      !.lamports[EscrowAcct] = RentMinimumBalance(ESCROW_LEN)]
    /\ before' = ledger'
    /\ UNCHANGED <<tx, result, history>>

Next ==
    \/ \E a \in InitArgs : InitEscrow(a)
    \/ \E a \in ExchangeArgs : Exchange(a)
    \/ \E w \in Wallets : FundRecord(w)
    \/ Retire

Spec == Init /\ [][Next]_vars


(***************************************************************************)
(* Vocabulary of the properties.                                           *)
(***************************************************************************)
\* The lifecycle state of the escrow record in a ledger.
RecordState(led) ==
    IF led.escrow.data_len # ESCROW_LEN THEN "Closed"
    ELSE IF led.escrow.info.is_initialized THEN "Initialized"
    ELSE "Uninitialized"

Record(led) == led.escrow.info

PdaKey == find_program_address("escrow", ESCROW_PROGRAM_ID).address

\* An initialized token account.
IsTokenAccount(led, key) ==
    key \in TokenAccts /\ led.token[key].state = "Initialized"

RanInit == tx.op = "InitEscrow"
RanExchange == tx.op = "Exchange"
Succeeded == result.err = "Ok"

\* An Exchange whose nine handles are all there, signed by the taker, naming
\* the token program and the derived authority.
FullExchange ==
    /\ RanExchange
    /\ tx.n = 9
    /\ tx.is_signer
    /\ tx.token_program = SPL_TOKEN_ID
    /\ tx.pda_account = PdaKey

\* The Exchange in `tx` names the three identities the record stored.
NamesRecorded(led) ==
    /\ tx.pda_token_account = Record(led).temp_token_account_pubkey
    /\ tx.initializer_account = Record(led).initializer_pubkey
    /\ tx.initializer_token_to_receive_account
         = Record(led).initializer_token_to_receive_account_pubkey

\* Adding the holding account's and the record account's lamports to the
\* initializer account stays within u64.
RefundFits(led) ==
    led.lamports[tx.initializer_account] + led.lamports[tx.pda_token_account]
      + led.lamports[tx.escrow_account] <= U64_MAX

(***************************************************************************)
(* C1.  End-to-end swap at the agreed price: for a record initialized with *)
(* X units of asset A in the holding account and expected_amount = Y, a    *)
(* signing taker who supplies exactly Y units of asset B (amount = Y, from *)
(* an account of theirs holding at least Y) completes Exchange: the        *)
(* initializer's receive account gains Y, the taker's receive account      *)
(* gains X, the holding account is closed and the record is zeroed.        *)
(* The code does not do this: it compares the amount with X, not with Y,   *)
(* and pays the initializer the amount (X).                                *)
(***************************************************************************)
C1_TakerSuppliesExpected ==
    /\ FullExchange
    /\ RecordState(before) = "Initialized"
    /\ NamesRecorded(before)
    /\ tx.amount = Record(before).expected_amount
    /\ IsTokenAccount(before, tx.taker_token_to_send_account)
    /\ IsTokenAccount(before, tx.initializer_token_to_receive_account)
    /\ before.token[tx.taker_token_to_send_account].owner = tx.taker_account
    /\ before.token[tx.taker_token_to_send_account].amount >= tx.amount
    /\ before.token[tx.taker_token_to_send_account].mint
         = before.token[tx.initializer_token_to_receive_account].mint
    /\ before.token[tx.taker_token_to_receive_account].mint
         = before.token[tx.pda_token_account].mint
    /\ tx.taker_token_to_send_account # tx.initializer_token_to_receive_account
    /\ tx.taker_token_to_receive_account # tx.pda_token_account
    /\ RefundFits(before)

C1_EndToEndSwap ==
    C1_TakerSuppliesExpected =>
        /\ Succeeded
        /\ ledger.token[tx.initializer_token_to_receive_account].amount
             = before.token[tx.initializer_token_to_receive_account].amount
                 + Record(before).expected_amount
        /\ ledger.token[tx.taker_token_to_receive_account].amount
             = before.token[tx.taker_token_to_receive_account].amount
                 + before.token[tx.pda_token_account].amount
        /\ ledger.token[tx.pda_token_account].state = "Uninitialized"
        /\ RecordState(ledger) = "Closed"
        /\ Record(ledger) = EscrowZeroed

(***************************************************************************)
(* C2.  Exactly-one exchange: at most one Exchange ever succeeds against   *)
(* the record; an Exchange succeeds only when the record is Initialized,   *)
(* and then closes it; an Exchange against a Closed or never-initialized   *)
(* record fails, issues no token-ledger call and changes nothing (so it    *)
(* debits no taker).                                                       *)
(***************************************************************************)
C2_ExactlyOneExchange ==
    /\ history.exchange_ok <= 1
    /\ (RanExchange /\ Succeeded) =>
          /\ RecordState(before) = "Initialized"
          /\ RecordState(ledger) = "Closed"
    /\ (RanExchange /\ RecordState(before) # "Initialized") =>
          /\ ~Succeeded
          /\ result.issued = 0
          /\ ledger = before

\* A full, signed Exchange is attempted after one has already succeeded.
C2_Witness ==
    /\ FullExchange
    /\ history.exchange_ok = 1
    /\ RecordState(before) = "Closed"
    /\ ~Succeeded


\* An InitEscrow with all six handles, the rent sysvar and the token program.
FullInitList ==
    /\ RanInit
    /\ tx.n = 6
    /\ tx.rent = RENT_SYSVAR_ID
    /\ tx.token_program = SPL_TOKEN_ID

\* An InitEscrow that gets as far as reading the record: the initializer
\* signed, the holding-account handle unpacks as a token account, the receive
\* account is owned by the token program, and the rent handle is the sysvar.
InitReachesRecord ==
    /\ RanInit
    /\ tx.n >= 5
    /\ tx.is_signer
    /\ IsTokenAccount(before, tx.temp_token_account)
    /\ AccountOwner(tx.token_to_receive_account) = SPL_TOKEN_ID
    /\ tx.rent = RENT_SYSVAR_ID

(***************************************************************************)
(* C3.  Exactly-once initialization, as the claim states it: the record is *)
(* initialized at most once, and every Init (with a complete handle list)  *)
(* run against the record while it is Initialized fails with               *)
(* AccountAlreadyInitialized.                                              *)
(***************************************************************************)
C3_EveryLaterInitAlreadyInitialized ==
    /\ history.init_ok <= 1
    /\ (FullInitList /\ RecordState(before) = "Initialized") =>
          result.err = "AccountAlreadyInitialized"

(***************************************************************************)
(* C3, amended.  The record is initialized at most once: is_initialized    *)
(* rises only in a successful Init, and at most one Init succeeds.  Every  *)
(* Init run while the record is Initialized fails; it fails with           *)
(* AccountAlreadyInitialized when it passes the checks that come before    *)
(* the record is read (signature, holding account unpacks, receive account *)
(* owned by the token program, rent handle), and with the error of the     *)
(* first of those checks it fails otherwise.                               *)
(***************************************************************************)
C3_ExactlyOnceInit ==
    /\ history.init_ok <= 1
    /\ RecordState(ledger) = "Initialized" => history.init_ok = 1
    /\ (tx # NoTx /\ ~Record(before).is_initialized /\ Record(ledger).is_initialized)
          => (RanInit /\ Succeeded)
    /\ (RanInit /\ RecordState(before) = "Initialized") =>
          /\ ~Succeeded
          /\ InitReachesRecord => result.err = "AccountAlreadyInitialized"
          /\ ~InitReachesRecord =>
                result.err \in {"NotEnoughAccountKeys", "MissingRequiredSignature",
                                "InvalidAccountData", "UninitializedAccount",
                                "IncorrectProgramId", "InvalidArgument"}

\* A second, well-formed Init loses against the first.
C3_Witness ==
    /\ InitReachesRecord
    /\ tx.n = 6
    /\ history.init_ok = 1
    /\ RecordState(before) = "Initialized"
    /\ result.err = "AccountAlreadyInitialized"

(***************************************************************************)
(* C4.  All-or-nothing Exchange: when a check, a handle lookup, one of the  *)
(* three token-ledger calls or the lamport addition of an Exchange fails,  *)
(* the Exchange returns an error and the committed ledger (token balances, *)
(* token-account state, lamports, record) is the ledger as it was before   *)
(* the invocation.                                                         *)
(***************************************************************************)
C4_ExchangeAllOrNothing ==
    /\ (RanExchange /\ result.failed) => ~Succeeded
    /\ (RanExchange /\ ~Succeeded) => ledger = before

\* An Exchange fails after all three token-ledger calls were issued and had
\* staged changes.
C4_Witness ==
    /\ RanExchange
    /\ ~Succeeded
    /\ result.issued = 3
    /\ processor_exchange(tx, before).led # before
    /\ ledger = before

(***************************************************************************)
(* C5.  Custody: whenever the record is Initialized, the holding account   *)
(* it names is a live token account whose authority is the derived program *)
(* authority and not the initializer; and from a state with an Initialized *)
(* record, the holding account (balance, authority, state, lamports) is    *)
(* changed by nothing but a successful Exchange against that record.       *)
(***************************************************************************)
C5_Custody ==
    /\ RecordState(ledger) = "Initialized" =>
          /\ IsTokenAccount(ledger, Record(ledger).temp_token_account_pubkey)
          /\ ledger.token[Record(ledger).temp_token_account_pubkey].owner = PdaKey
          /\ ledger.token[Record(ledger).temp_token_account_pubkey].owner
               # Record(ledger).initializer_pubkey
    /\ (tx # NoTx /\ RecordState(before) = "Initialized") =>
          \/ /\ ledger.token[Record(before).temp_token_account_pubkey]
                  = before.token[Record(before).temp_token_account_pubkey]
             /\ ledger.lamports[Record(before).temp_token_account_pubkey]
                  = before.lamports[Record(before).temp_token_account_pubkey]
          \/ /\ RanExchange
             /\ Succeeded
             /\ tx.escrow_account = EscrowAcct
             /\ tx.pda_token_account = Record(before).temp_token_account_pubkey

\* The initializer, signing as taker, tries to take the deposit back out of
\* the holding account, and a token-ledger call is issued before the attempt
\* fails.
C5_Witness ==
    /\ FullExchange
    /\ tx.taker_account = Record(before).initializer_pubkey
    /\ RecordState(before) = "Initialized"
    /\ tx.pda_token_account = Record(before).temp_token_account_pubkey
    /\ before.token[tx.pda_token_account].amount > 0
    /\ result.issued > 0
    /\ ~Succeeded
    /\ ledger.token[tx.pda_token_account].owner = PdaKey

(***************************************************************************)
(* C6.  Record immutability: while is_initialized is true the record holds *)
(* the initializer, holding account, receive account and amount of the     *)
(* successful Init, and no Init or Exchange, failed or successful, changes *)
(* it, except a successful Exchange, which zeroes it.                      *)
(***************************************************************************)
C6_RecordImmutable ==
    /\ Record(ledger).is_initialized =>
          /\ history.init_args # NoTx
          /\ Record(ledger).initializer_pubkey = history.init_args.initializer
          /\ Record(ledger).temp_token_account_pubkey
               = history.init_args.temp_token_account
          /\ Record(ledger).initializer_token_to_receive_account_pubkey
               = history.init_args.token_to_receive_account
          /\ Record(ledger).expected_amount = history.init_args.amount
    /\ (tx # NoTx /\ Record(before).is_initialized) =>
          \/ ledger.escrow = before.escrow
          \/ /\ RanExchange
             /\ Succeeded
             /\ Record(ledger) = EscrowZeroed
             /\ RecordState(ledger) = "Closed"

\* Another party runs a well-formed Init with other terms on the initialized
\* record.
C6_Witness ==
    /\ InitReachesRecord
    /\ tx.n = 6
    /\ Record(before).is_initialized
    /\ tx.initializer # Record(before).initializer_pubkey
    /\ tx.amount # Record(before).expected_amount
    /\ Record(ledger) = Record(before)

\* The Exchange in `tx` supplies a holding account that unpacks, and an amount
\* that differs from its balance.
AmountDiffers ==
    /\ RanExchange
    /\ tx.n >= 4
    /\ IsTokenAccount(before, tx.pda_token_account)
    /\ tx.amount # before.token[tx.pda_token_account].amount

(***************************************************************************)
(* C7, as the claim states it: an Exchange (with a complete handle list)   *)
(* whose amount differs from the balance of the holding account fails with *)
(* ExpectedAmountMismatch, issues no transfer and changes nothing.         *)
(***************************************************************************)
C7_MismatchAlwaysExpectedAmountMismatch ==
    (AmountDiffers /\ tx.n = 9) =>
        /\ result.err = "ExpectedAmountMismatch"
        /\ result.issued = 0
        /\ ledger = before

(***************************************************************************)
(* C7, amended.  An Exchange whose amount differs, in either direction,    *)
(* from the balance of the holding account supplied fails, issues no       *)
(* transfer and changes nothing; the error is ExpectedAmountMismatch when  *)
(* the taker signed, and MissingRequiredSignature when the taker did not   *)
(* (the signature is checked first).                                       *)
(***************************************************************************)
C7_AmountMismatch ==
    AmountDiffers =>
        /\ result.issued = 0
        /\ ledger = before
        /\ tx.is_signer => result.err = "ExpectedAmountMismatch"
        /\ ~tx.is_signer => result.err = "MissingRequiredSignature"

\* A signing taker names the recorded accounts but an amount below the
\* deposit.
C7_Witness ==
    /\ AmountDiffers
    /\ FullExchange
    /\ RecordState(before) = "Initialized"
    /\ NamesRecorded(before)
    /\ tx.amount < before.token[tx.pda_token_account].amount
    /\ result.err = "ExpectedAmountMismatch"

\* The Exchange in `tx` supplies the three identities, against an Initialized
\* record, and at least one differs from the one the record stores.
Substitutes ==
    /\ RanExchange
    /\ tx.n >= 7
    /\ RecordState(before) = "Initialized"
    /\ ~NamesRecorded(before)

(***************************************************************************)
(* C8, as the claim states it: an Exchange (with a complete handle list)   *)
(* that supplies a holding account, initializer account or initializer     *)
(* receive account other than the recorded one fails with                  *)
(* InvalidAccountData, before any token-ledger call, and changes nothing.  *)
(***************************************************************************)
C8_SubstitutionAlwaysInvalidAccountData ==
    (Substitutes /\ tx.n = 9) =>
        /\ result.err = "InvalidAccountData"
        /\ result.issued = 0
        /\ ledger = before

(***************************************************************************)
(* C8, amended.  An Exchange that supplies a holding account, initializer  *)
(* account or initializer receive account other than the recorded one      *)
(* fails before any token-ledger call and changes nothing; the error is    *)
(* InvalidAccountData when the taker signed and the amount equals the      *)
(* balance of the holding account supplied, and otherwise the error of the *)
(* earlier check that failed (signature, unpacking of the holding account, *)
(* amount).                                                                *)
(***************************************************************************)
C8_NoSubstitution ==
    Substitutes =>
        /\ ~Succeeded
        /\ result.issued = 0
        /\ ledger = before
        /\ (tx.is_signer /\ ~AmountDiffers
              /\ IsTokenAccount(before, tx.pda_token_account))
             => result.err = "InvalidAccountData"
        /\ ~tx.is_signer => result.err = "MissingRequiredSignature"
        /\ (tx.is_signer /\ AmountDiffers) => result.err = "ExpectedAmountMismatch"

\* A signing taker names the recorded holding account and initializer and the
\* right amount, but another receive account for the initializer's payment.
C8_Witness ==
    /\ Substitutes
    /\ FullExchange
    /\ ~AmountDiffers
    /\ tx.pda_token_account = Record(before).temp_token_account_pubkey
    /\ tx.initializer_account = Record(before).initializer_pubkey
    /\ tx.initializer_token_to_receive_account
         # Record(before).initializer_token_to_receive_account_pubkey
    /\ result.err = "InvalidAccountData"

(***************************************************************************)
(* C9, as the claim states it: Init (with a complete handle list) on a     *)
(* record whose is_initialized flag is set fails with                      *)
(* AccountAlreadyInitialized and writes nothing.                           *)
(***************************************************************************)
C9_InitOnInitializedAlwaysAlreadyInitialized ==
    (FullInitList /\ Record(before).is_initialized) =>
        /\ result.err = "AccountAlreadyInitialized"
        /\ ledger = before

(***************************************************************************)
(* C9, amended.  Init on a record whose is_initialized flag is set fails,  *)
(* issues no set-authority call and writes nothing (record, authority of   *)
(* every token account, all balances unchanged); the error is              *)
(* AccountAlreadyInitialized when the Init passes the checks made before   *)
(* the record is read, and the error of the first failing one otherwise.   *)
(***************************************************************************)
C9_InitOnInitialized ==
    (RanInit /\ Record(before).is_initialized) =>
        /\ ~Succeeded
        /\ result.issued = 0
        /\ ledger = before
        /\ InitReachesRecord => result.err = "AccountAlreadyInitialized"
        /\ (tx.n >= 1 /\ ~tx.is_signer) => result.err = "MissingRequiredSignature"

\* The recorded initializer runs the same well-formed Init a second time.
C9_Witness ==
    /\ InitReachesRecord
    /\ tx.n = 6
    /\ tx.token_program = SPL_TOKEN_ID
    /\ Record(before).is_initialized
    /\ tx.initializer = Record(before).initializer_pubkey
    /\ tx.temp_token_account = Record(before).temp_token_account_pubkey
    /\ result.err = "AccountAlreadyInitialized"
    /\ ledger.token[tx.temp_token_account].owner = PdaKey

RecordIsRentExempt(led) ==
    rent_is_exempt(Lamports(led, tx.escrow_account),
                   EscrowData(led, tx.escrow_account).data_len)

(***************************************************************************)
(* C10, as the claim states it, the three checks read in the order the     *)
(* claim lists them, for an Init with a complete handle list: unsigned     *)
(* fails with MissingSignature; signed with a receive account not owned by *)
(* the token program fails with IncorrectProgramId; signed, receive        *)
(* account owned, record account below the rent-exempt minimum fails with  *)
(* NotRentExempt; and in each case nothing is written.                     *)
(***************************************************************************)
C10_PreconditionErrorsAsListed ==
    FullInitList =>
        /\ ~tx.is_signer =>
              (result.err = "MissingRequiredSignature" /\ ledger = before)
        /\ (tx.is_signer /\ AccountOwner(tx.token_to_receive_account) # SPL_TOKEN_ID)
              => (result.err = "IncorrectProgramId" /\ ledger = before)
        /\ (tx.is_signer /\ AccountOwner(tx.token_to_receive_account) = SPL_TOKEN_ID
              /\ ~RecordIsRentExempt(before))
              => (result.err = "NotRentExempt" /\ ledger = before)

(***************************************************************************)
(* C10, amended.  An Init rejected by a precondition check writes nothing  *)
(* and issues no set-authority call (the record is unchanged and custody   *)
(* of the holding account is not transferred).  Unsigned, it fails with    *)
(* MissingRequiredSignature.  Signed, it fails with the unpack error       *)
(* (InvalidAccountData or UninitializedAccount) when the holding-account   *)
(* handle is not an initialized token account; that check precedes the     *)
(* next two.  Signed with a holding account that unpacks, it fails with    *)
(* IncorrectProgramId when the receive account is not owned by the token   *)
(* program, and, that account being owned, with NotRentExempt when the     *)
(* record account is below the rent-exempt minimum.                        *)
(***************************************************************************)
C10_PreconditionErrors ==
    FullInitList =>
        /\ (~tx.is_signer \/ ~IsTokenAccount(before, tx.temp_token_account)
              \/ AccountOwner(tx.token_to_receive_account) # SPL_TOKEN_ID
              \/ ~RecordIsRentExempt(before))
              => (~Succeeded /\ result.issued = 0 /\ ledger = before)
        /\ ~tx.is_signer => result.err = "MissingRequiredSignature"
        /\ (tx.is_signer /\ ~IsTokenAccount(before, tx.temp_token_account))
              => result.err \in {"InvalidAccountData", "UninitializedAccount"}
        /\ (tx.is_signer /\ IsTokenAccount(before, tx.temp_token_account)
              /\ AccountOwner(tx.token_to_receive_account) # SPL_TOKEN_ID)
              => result.err = "IncorrectProgramId"
        /\ (tx.is_signer /\ IsTokenAccount(before, tx.temp_token_account)
              /\ AccountOwner(tx.token_to_receive_account) = SPL_TOKEN_ID
              /\ ~RecordIsRentExempt(before))
              => result.err = "NotRentExempt"

\* A signed Init on the untouched record, its holding account the signer's
\* own token account, is refused for its receive account.
C10_Witness ==
    /\ FullInitList
    /\ tx.is_signer
    /\ IsTokenAccount(before, tx.temp_token_account)
    /\ before.token[tx.temp_token_account].owner = tx.initializer
    /\ AccountOwner(tx.token_to_receive_account) # SPL_TOKEN_ID
    /\ RecordState(before) = "Uninitialized"
    /\ result.err = "IncorrectProgramId"
    /\ RecordState(ledger) = "Uninitialized"
    /\ ledger.token[tx.temp_token_account].owner = tx.initializer

(***************************************************************************)
(* C11.  After every successful Init the persisted record has              *)
(* is_initialized = true and its four fields equal the supplied            *)
(* initializer, holding-account and receive-account identities and the     *)
(* instruction's amount (as expected_amount), for every amount, 0          *)
(* included; the record keeps its full packed length.                      *)
(***************************************************************************)
C11_InitWritesRecord ==
    (RanInit /\ Succeeded) =>
        /\ ledger.escrow.data_len = ESCROW_LEN
        /\ Record(ledger).is_initialized = TRUE
        /\ Record(ledger).initializer_pubkey = tx.initializer
        /\ Record(ledger).temp_token_account_pubkey = tx.temp_token_account
        /\ Record(ledger).initializer_token_to_receive_account_pubkey
             = tx.token_to_receive_account
        /\ Record(ledger).expected_amount = tx.amount
        /\ ~Record(before).is_initialized

\* A successful Init whose amount is 0 while the holding account is funded.
C11_Witness ==
    /\ RanInit
    /\ Succeeded
    /\ tx.amount = 0
    /\ ledger.token[tx.temp_token_account].amount > 0
    /\ Record(ledger).is_initialized
    /\ Record(ledger).expected_amount = 0

\* The token accounts of an Exchange are of the kinds its two transfers need:
\* the send account belongs to the taker, is of the asset of the initializer's
\* receive account and covers the amount; the taker's receive account is an
\* account of the holding account's asset other than the holding account.
TakerAccountsFit(led) ==
    /\ IsTokenAccount(led, tx.taker_token_to_send_account)
    /\ IsTokenAccount(led, tx.taker_token_to_receive_account)
    /\ IsTokenAccount(led, tx.pda_token_account)
    /\ IsTokenAccount(led, tx.initializer_token_to_receive_account)
    /\ led.token[tx.taker_token_to_send_account].owner = tx.taker_account
    /\ led.token[tx.taker_token_to_send_account].mint
         = led.token[tx.initializer_token_to_receive_account].mint
    /\ led.token[tx.taker_token_to_send_account].amount >= tx.amount
    /\ led.token[tx.taker_token_to_receive_account].mint
         = led.token[tx.pda_token_account].mint
    /\ tx.taker_token_to_receive_account # tx.pda_token_account

\* An Exchange that passes every check of the program and of the token ledger
\* up to the refund of the record account's lamports.
ReachesRecordRefund ==
    /\ FullExchange
    /\ RecordState(before) = "Initialized"
    /\ NamesRecorded(before)
    /\ tx.amount = before.token[tx.pda_token_account].amount
    /\ TakerAccountsFit(before)
    /\ before.lamports[tx.initializer_account]
         + before.lamports[tx.pda_token_account] <= U64_MAX

(***************************************************************************)
(* C12.  If, in an Exchange that has made both transfers and closed the    *)
(* holding account, adding the record account's lamports to the            *)
(* initializer account's balance (which by then includes the holding       *)
(* account's rent refund) would exceed the u64 range, the Exchange fails   *)
(* with AmountOverflow and nothing is committed: balances, the holding     *)
(* account and the record are as before.                                   *)
(***************************************************************************)
C12_OverflowCommitsNothing ==
    (ReachesRecordRefund /\ ~RefundFits(before)) =>
        /\ result.err = "AmountOverflow"
        /\ result.issued = 3
        /\ ledger = before

\* The refund overflows after tokens moved and the holding account was closed
\* in the aborted run.
C12_Witness ==
    /\ ReachesRecordRefund
    /\ ~RefundFits(before)
    /\ tx.amount > 0
    /\ result.err = "AmountOverflow"
    /\ processor_exchange(tx, before).led.token[tx.pda_token_account].state
         = "Uninitialized"
    /\ processor_exchange(tx, before).led.token[tx.taker_token_to_receive_account].amount
         = before.token[tx.taker_token_to_receive_account].amount + tx.amount
    /\ RecordState(ledger) = "Initialized"
    /\ ledger.token[tx.pda_token_account].amount = tx.amount

\* The lifecycle order of the record states.
StateRank(s) ==
    CASE s = "Uninitialized" -> 0
      [] s = "Initialized" -> 1
      [] OTHER -> 2

\* In this step the record does not move backwards, leaves Uninitialized only
\* by a successful Init (to Initialized) and leaves Initialized only by a
\* successful Exchange (to Closed).
StepsForward ==
    /\ StateRank(RecordState(ledger')) >= StateRank(RecordState(ledger))
    /\ (RecordState(ledger) = "Uninitialized"
            /\ RecordState(ledger') # "Uninitialized")
        => /\ tx'.op = "InitEscrow"
           /\ result'.err = "Ok"
           /\ RecordState(ledger') = "Initialized"
    /\ (RecordState(ledger) = "Initialized"
            /\ RecordState(ledger') # "Initialized")
        => /\ tx'.op = "Exchange"
           /\ result'.err = "Ok"
           /\ RecordState(ledger') = "Closed"
    /\ RecordState(ledger) = "Closed" => ledger'.escrow = ledger.escrow

\* In this step, taken while the record is Initialized, the recorded
\* initializer regains the authority over the holding account, or an account
\* of the escrowed asset that the initializer owns is credited.
ReturnsAssetToInitializer ==
    /\ RecordState(ledger) = "Initialized"
    /\ LET hold == Record(ledger).temp_token_account_pubkey
           who == Record(ledger).initializer_pubkey
       IN \/ ledger'.token[hold].owner = who
          \/ \E k \in TokenAccts \ {hold} :
                /\ ledger'.token[k].owner = who
                /\ ledger.token[k].mint = ledger.token[hold].mint
                /\ ledger'.token[k].amount > ledger.token[k].amount

(***************************************************************************)
(* C13 as stated.  The record only moves Uninitialized -> Initialized ->   *)
(* Closed, by a successful Init and a successful Exchange respectively,    *)
(* and no operation at all returns the escrowed asset A to the             *)
(* initializer's control.                                                  *)
(***************************************************************************)
C13_NoOperationReturnsAsset ==
    [][StepsForward /\ ~ReturnsAssetToInitializer]_vars

(***************************************************************************)
(* C13.  The record only moves Uninitialized -> Initialized -> Closed: it  *)
(* leaves Uninitialized only by a successful Init and Initialized only by  *)
(* a successful Exchange, and is never moved backwards.  The escrowed      *)
(* asset A comes back under the initializer's control in no failed call    *)
(* and in no Init, only in a successful Exchange whose taker names an      *)
(* account of the initializer as its receive account.                      *)
(***************************************************************************)
C13_Lifecycle ==
    [][/\ StepsForward
       /\ ReturnsAssetToInitializer =>
            /\ tx'.op = "Exchange"
            /\ result'.err = "Ok"
            /\ RecordState(ledger') = "Closed"
            /\ ledger'.token[tx'.taker_token_to_receive_account].owner
                 = Record(ledger).initializer_pubkey]_vars

\* The initializer signs a successful Exchange as taker and receives the
\* escrowed asset in another account of its own.
C13_Witness ==
    /\ RanExchange
    /\ Succeeded
    /\ tx.amount > 0
    /\ tx.taker_account = Record(before).initializer_pubkey
    /\ ledger.token[tx.taker_token_to_receive_account].owner = tx.taker_account
    /\ ledger.token[tx.taker_token_to_receive_account].amount
         = before.token[tx.taker_token_to_receive_account].amount + tx.amount
    /\ RecordState(before) = "Initialized"
    /\ RecordState(ledger) = "Closed"

(***************************************************************************)
(* C14.  A record is never reusable once Closed: a successful Exchange     *)
(* leaves the record account with is_initialized not set, no lamports and  *)
(* no data; from then on the record stays cleared and every Init against   *)
(* that account fails and changes nothing, even when the account has been  *)
(* given lamports again.                                                   *)
(***************************************************************************)
C14_ClosedNeverReused ==
    /\ (RanExchange /\ Succeeded) =>
          /\ ~Record(ledger).is_initialized
          /\ ledger.lamports[tx.escrow_account] = 0
          /\ ledger.escrow.data_len = 0
    /\ history.exchange_ok > 0 =>
          /\ RecordState(ledger) = "Closed"
          /\ ~Record(ledger).is_initialized
    /\ (RanInit /\ (history.exchange_ok > 0 \/ RecordState(before) = "Closed")) =>
          /\ ~Succeeded
          /\ ledger = before
          /\ InitReachesRecord =>
                result.err = IF RecordIsRentExempt(before)
                             THEN "InvalidAccountData" ELSE "NotRentExempt"

\* After a successful Exchange the record account is funded again and an Init
\* that passes every earlier check is run against it; it is refused when the
\* record is read.
C14_Witness ==
    /\ FullInitList
    /\ InitReachesRecord
    /\ history.exchange_ok = 1
    /\ before.token[tx.temp_token_account].owner = tx.initializer
    /\ before.lamports[tx.escrow_account] >= RentMinimumBalance(ESCROW_LEN)
    /\ result.err = "InvalidAccountData"
    /\ RecordState(ledger) = "Closed"

\* The set_authority call of an Init was issued and failed.
SetAuthorityFailed ==
    /\ RanInit
    /\ result.issued = 1
    /\ result.failed

(***************************************************************************)
(* C15.  Init writes the record before it calls set_authority; when that   *)
(* call fails (for instance the signing initializer is not the holding     *)
(* account's current authority) the Init fails with the call's error, the  *)
(* record write is discarded with everything else, and the record is still *)
(* uninitialized; so a record is never Initialized while its holding       *)
(* account is not under the derived program authority.                     *)
(***************************************************************************)
C15_InitAtomicWithSetAuthority ==
    /\ SetAuthorityFailed =>
          /\ processor_init_escrow(tx, before).led.escrow.info.is_initialized
          /\ ~Succeeded
          /\ result.err \in {"OwnerMismatch", "InvalidAccountData"}
          /\ ledger = before
          /\ RecordState(ledger) = "Uninitialized"
    /\ Record(ledger).is_initialized =>
          LET hold == Record(ledger).temp_token_account_pubkey
          IN /\ hold \in TokenAccts
             /\ ledger.token[hold].owner
                  = find_program_address("escrow", ESCROW_PROGRAM_ID).address

\* A signing initializer names a holding account whose authority is someone
\* else: the record had been written when set_authority refused.
C15_Witness ==
    /\ SetAuthorityFailed
    /\ tx.is_signer
    /\ before.token[tx.temp_token_account].owner # tx.initializer
    /\ result.err = "OwnerMismatch"
    /\ processor_init_escrow(tx, before).led.escrow.info.initializer_pubkey
         = tx.initializer
    /\ ~Record(ledger).is_initialized

\* The balance a token account gained over the last instruction.
Gained(key) == ledger.token[key].amount - before.token[key].amount

\* The last instruction took tokens out of the holding account of an
\* Initialized record.
AssetLeftHolding ==
    /\ tx # NoTx
    /\ RecordState(before) = "Initialized"
    /\ ledger.token[Record(before).temp_token_account_pubkey].amount
         < before.token[Record(before).temp_token_account_pubkey].amount

(***************************************************************************)
(* C16 as stated.  In every successful Exchange the recorded               *)
(* initializer-receive account is credited, and the taker's receive        *)
(* account is credited, with exactly the instruction's amount, which is    *)
(* the holding account's balance before the Exchange; and asset A leaves   *)
(* the holding account only in a transition that credits the recorded      *)
(* initializer-receive account.                                            *)
(***************************************************************************)
C16_BothLegsAlwaysCredited ==
    /\ (RanExchange /\ Succeeded) =>
          /\ tx.amount = before.token[tx.pda_token_account].amount
          /\ tx.initializer_token_to_receive_account
               = Record(before).initializer_token_to_receive_account_pubkey
          /\ Gained(tx.initializer_token_to_receive_account) = tx.amount
          /\ Gained(tx.taker_token_to_receive_account) = tx.amount
    /\ AssetLeftHolding =>
          Gained(Record(before).initializer_token_to_receive_account_pubkey) > 0

(***************************************************************************)
(* C16.  In every successful Exchange both transfers are of exactly the    *)
(* instruction's amount, which is the holding account's balance before the *)
(* Exchange: the taker's receive account gains it, the taker's send        *)
(* account is debited it and the recorded initializer-receive account      *)
(* gains it, unless the send account is that recorded receive account      *)
(* itself, whose balance then does not change.  Asset A leaves the holding *)
(* account only in a successful Exchange, of which this holds.             *)
(***************************************************************************)
C16_BothLegsSameQuantity ==
    /\ (RanExchange /\ Succeeded) =>
          /\ tx.amount = before.token[tx.pda_token_account].amount
          /\ tx.initializer_token_to_receive_account
               = Record(before).initializer_token_to_receive_account_pubkey
          /\ before.token[tx.taker_token_to_send_account].amount >= tx.amount
          /\ Gained(tx.initializer_token_to_receive_account)
               = IF tx.taker_token_to_send_account
                      = tx.initializer_token_to_receive_account
                 THEN 0 ELSE tx.amount
          /\ tx.taker_token_to_send_account
                 # tx.initializer_token_to_receive_account
               => Gained(tx.taker_token_to_send_account) = 0 - tx.amount
          /\ Gained(tx.taker_token_to_receive_account) = tx.amount
    /\ AssetLeftHolding =>
          /\ RanExchange
          /\ Succeeded
          /\ tx.pda_token_account = Record(before).temp_token_account_pubkey
          /\ result.issued = 3

\* A taker other than the initializer pays into the recorded receive account
\* what it takes out of the holding account.
C16_Witness ==
    /\ RanExchange
    /\ Succeeded
    /\ tx.amount > 0
    /\ tx.taker_account # Record(before).initializer_pubkey
    /\ tx.amount # Record(before).expected_amount
    /\ Gained(Record(before).initializer_token_to_receive_account_pubkey) = tx.amount
    /\ Gained(tx.taker_token_to_receive_account) = tx.amount
    /\ AssetLeftHolding

(***************************************************************************)
(* C17.  The trade is completable.  The authority a successful Init        *)
(* installs on the holding account is the address the signer seeds of      *)
(* Exchange derive.  Whenever the record is Initialized, an Exchange with  *)
(* a complete handle list, signed by the taker, naming the recorded        *)
(* holding, initializer and initializer-receive accounts and an amount     *)
(* equal to the holding account's balance, with a send account of the      *)
(* taker holding at least that amount of asset B and a receive account of  *)
(* asset A other than the holding account, succeeds and closes the record, *)
(* provided the lamport refunds do not overflow.                           *)
(***************************************************************************)
C17_TradeCompletable ==
    /\ (RanInit /\ Succeeded) =>
          ledger.token[tx.temp_token_account].owner
            = create_program_address(
                  "escrow",
                  find_program_address("escrow", ESCROW_PROGRAM_ID).bump,
                  ESCROW_PROGRAM_ID)
    /\ (ReachesRecordRefund /\ RefundFits(before)) =>
          /\ Succeeded
          /\ result.issued = 3
          /\ RecordState(ledger) = "Closed"

\* A funded taker completes the trade against a record someone else
\* initialized, for the whole (positive) balance of the holding account.
C17_Witness ==
    /\ ReachesRecordRefund
    /\ RefundFits(before)
    /\ tx.taker_account # tx.initializer_account
    /\ before.token[tx.pda_token_account].amount > 0
    /\ before.token[tx.pda_token_account].owner = PdaKey
    /\ Succeeded
    /\ RecordState(ledger) = "Closed"

(***************************************************************************)
(* C18.  A successful Exchange leaves the holding account and the record   *)
(* account with zero lamports and the record's data cleared, and raises    *)
(* the initializer account's lamports by exactly what the holding account  *)
(* and the record account held; the lamports of the three accounts         *)
(* together are unchanged, and so are those of every other account.        *)
(***************************************************************************)
C18_RentRefund ==
    (RanExchange /\ Succeeded) =>
        /\ ledger.lamports[tx.pda_token_account] = 0
        /\ ledger.lamports[tx.escrow_account] = 0
        /\ ledger.escrow = [data_len |-> 0, info |-> EscrowZeroed]
        /\ ledger.lamports[tx.initializer_account]
             = before.lamports[tx.initializer_account]
                 + before.lamports[tx.pda_token_account]
                 + before.lamports[tx.escrow_account]
        /\ ledger.lamports[tx.initializer_account]
             + ledger.lamports[tx.pda_token_account]
             + ledger.lamports[tx.escrow_account]
             = before.lamports[tx.initializer_account]
                 + before.lamports[tx.pda_token_account]
                 + before.lamports[tx.escrow_account]
        /\ \A k \in Accts \ {tx.initializer_account, tx.pda_token_account,
                              tx.escrow_account} :
              ledger.lamports[k] = before.lamports[k]

\* Both rent reserves, each positive, reach the initializer account.
C18_Witness ==
    /\ RanExchange
    /\ Succeeded
    /\ before.lamports[tx.pda_token_account] = RentMinimumBalance(TOKEN_ACCOUNT_LEN)
    /\ before.lamports[tx.escrow_account] = RentMinimumBalance(ESCROW_LEN)
    /\ ledger.lamports[tx.initializer_account]
         = before.lamports[tx.initializer_account]
             + RentMinimumBalance(TOKEN_ACCOUNT_LEN) + RentMinimumBalance(ESCROW_LEN)
    /\ ledger.lamports[tx.escrow_account] = 0

\* The units of asset m over a set of token accounts.
RECURSIVE SupplyOver(_, _, _)
SupplyOver(S, tok, m) ==
    IF S = {} THEN 0
    ELSE LET k == CHOOSE x \in S : TRUE
         IN (IF tok[k].mint = m THEN tok[k].amount ELSE 0)
              + SupplyOver(S \ {k}, tok, m)

Supply(led, m) == SupplyOver(TokenAccts, led.token, m)

====
